---- MODULE Spec2Model ----
(***************************************************************************)
(* ParticleFX: the particle transition engine of ParticleCanvas.tsx.       *)
(*                                                                         *)
(* Numbers.  The engine computes in IEEE doubles.  The model computes in   *)
(* fixed point: the integer n stands for the real n / SCALE.  Products are *)
(* rescaled by Mul, quotients by Quot.  The transcendental library         *)
(* functions (Math.sin, Math.cos, Math.atan2, Math.sqrt) are computed by   *)
(* closed-form integer approximations that are exact at the arguments the  *)
(* boundary behaviour depends on: Sin(0) = Sin(PI) = 0, Cos(0) = SCALE.    *)
(* The JavaScript values undefined and NaN (a read past the end of a typed *)
(* array, arithmetic on it) are both the value NaN below: they behave the  *)
(* same under ||, under arithmetic and when stored in a Float32Array.      *)
(***************************************************************************)
EXTENDS Integers, Sequences, FiniteSets, TLC

VARIABLES
    assets,           \* ParticleCanvas prop: the ordered asset list
    particleCount,    \* ParticleCanvas prop
    imageDataStates,  \* ParticleCanvas state: the published buffers
    batches,          \* loadImages() calls still in flight
    consoleErrors,    \* what console.error has logged
    edits,            \* number of asset-list changes so far (bounded)
    currentTime,      \* ParticleCanvas prop, in 1/SCALE seconds
    duration,         \* ParticleCanvas prop, in 1/SCALE seconds
    settings,         \* the ParticleSystem props that come from the settings
    animTime,         \* animationRef.current.time
    positions,        \* geometry.attributes.position.array
    colors,           \* geometry.attributes.color.array
    defaultParticles, \* ParticleSystem: the useMemo'd default particles
    frames,           \* number of useFrame callbacks run so far
    random,           \* what Math.random() returned to each particle in the last frame
    gen,              \* the last call of generateParticlesFromImage
    published,        \* the loadImages() call whose setImageDataStates came last
    history,          \* useHistory state: { past, present, future }
    isUndoRedo,       \* useHistory: isUndoRedo.current
    calls,            \* useHistory: the last two calls, each with the state it found
    isExporting,      \* VideoExport state
    abortRef,         \* VideoExport: abortRef.current
    recorders,        \* VideoExport: the MediaRecorders created so far
    orderIndex,       \* the assets table: order_index of each asset id of the project
    loaded            \* the last call of loadImageData

vars == <<assets, particleCount, imageDataStates, batches, consoleErrors, edits,
          currentTime, duration, settings, animTime, positions, colors,
          defaultParticles, frames, random, gen, published,
          history, isUndoRedo, calls, isExporting, abortRef, recorders, orderIndex, loaded>>

\* the state of the canvas, the engine and the playhead
canvasVars == <<assets, particleCount, imageDataStates, batches, consoleErrors, edits,
                currentTime, duration, settings, animTime, positions, colors,
                defaultParticles, frames, random, gen, published>>

\* the state of the editor's panels around the canvas: the settings history,
\* the export dialog, the assets table and the image loader
panelVars == <<history, isUndoRedo, calls, isExporting, abortRef, recorders, orderIndex, loaded>>

\* the fields of defaultSettings that the settings history is followed on
defaultSettings == [transitionStyle |-> "morph", depthEnabled |-> FALSE, loop |-> TRUE]

\* the panels as the editor mounts them: useHistory(defaultSettings), a closed
\* export dialog, no asset row, no image loaded
InitPanels ==
    /\ history = [past |-> <<>>, present |-> defaultSettings, future |-> <<>>]
    /\ isUndoRedo = FALSE
    /\ calls = <<>>
    /\ isExporting = FALSE
    /\ abortRef = FALSE
    /\ recorders = <<>>
    /\ orderIndex = <<>>
    /\ loaded = <<>>

----------------------------------------------------------------------------
(* Fixed-point arithmetic *)

SCALE == 10 * 100

NaN == 0 - 1000000 * 1000

IsNaN(x) == x = NaN

Abs(x) == IF x < 0 THEN -x ELSE x

Sign(x) == IF x < 0 THEN -1 ELSE IF x > 0 THEN 1 ELSE 0

\* a / b over the reals, rounded toward zero (b > 0)
DivT(a, b) == IF a >= 0 THEN a \div b ELSE -((-a) \div b)

\* the product of two fixed-point numbers
Mul(a, b) == DivT(a * b, SCALE)

\* the quotient of two fixed-point numbers (b # 0)
Quot(a, b) == IF b > 0 THEN DivT(a * SCALE, b) ELSE DivT((-a) * SCALE, -b)

Min(a, b) == IF a < b THEN a ELSE b

Max(a, b) == IF a > b THEN a ELSE b

\* Math.floor of a fixed-point number, as an integer
Floor(x) == x \div SCALE

\* Math.round of a fixed-point number, as an integer (halves round up)
Round(x) == (x + SCALE \div 2) \div SCALE

\* x % 1 of JavaScript: the remainder has the sign of the dividend
Frac(x) == IF x >= 0 THEN x % SCALE ELSE -((-x) % SCALE)

\* a || b of JavaScript on numbers: 0, NaN and undefined are falsy
OrElse(a, b) == IF a = 0 \/ IsNaN(a) THEN b ELSE a

\* a + b, a * b of JavaScript where an operand may be NaN
AddN(a, b) == IF IsNaN(a) \/ IsNaN(b) THEN NaN ELSE a + b

SubN(a, b) == IF IsNaN(a) \/ IsNaN(b) THEN NaN ELSE a - b

MulN(a, b) == IF IsNaN(a) \/ IsNaN(b) THEN NaN ELSE Mul(a, b)

----------------------------------------------------------------------------
(* IEEE double arithmetic on quotients of integers, where the rounding of a    *)
(* double decides an integer result.  A positive double is [m, n], standing    *)
(* for the number m[1] m[2] m[3] m[4] m[5] in base LIMB divided by 2^n: m[1]   *)
(* is 1 (or 2 after a rounding carry) and the four limbs below it are the 52   *)
(* fraction bits of the significand.                                           *)

LIMB == 2 ^ 13

RECURSIVE BitLen(_)
\* the number of bits of n >= 0
BitLen(n) == IF n = 0 THEN 0 ELSE 1 + BitLen(n \div 2)

RECURSIVE Normalise(_, _, _)
\* the least s >= 0 with i * 2^s >= c, for 0 < i < 2 * c
Normalise(i, c, s) == IF i * (2 ^ s) >= c THEN s ELSE Normalise(i, c, s + 1)

\* the double i / c for integers 0 < i < 2 * c, c < 2^18: long division to 53
\* significant bits, rounded to nearest, ties to even
DoubleDiv(i, c) ==
    LET s == Normalise(i, c, 0)
        r0 == i * (2 ^ s) - c
        l1 == (r0 * LIMB) \div c
        r1 == (r0 * LIMB) % c
        l2 == (r1 * LIMB) \div c
        r2 == (r1 * LIMB) % c
        l3 == (r2 * LIMB) \div c
        r3 == (r2 * LIMB) % c
        l4 == (r3 * LIMB) \div c
        r4 == (r3 * LIMB) % c
        up == 2 * r4 > c \/ (2 * r4 = c /\ l4 % 2 = 1)
        m4 == l4 + (IF up THEN 1 ELSE 0)
        m3 == l3 + m4 \div LIMB
        m2 == l2 + m3 \div LIMB
        m1 == l1 + m2 \div LIMB
        m0 == 1 + m1 \div LIMB
    IN  [m |-> <<m0, m1 % LIMB, m2 % LIMB, m3 % LIMB, m4 % LIMB>>, n |-> 4 * 13 + s]

\* Math.floor(q * len) for a double q with leading limb 1 and an integer
\* 0 < len < 2^17:
\* the exact product, rounded to 53 significant bits (nearest, ties to even),
\* then its integer part
FloorOfProduct(q, len) ==
    LET t4 == q.m[5] * len
        t3 == q.m[4] * len + t4 \div LIMB
        t2 == q.m[3] * len + t3 \div LIMB
        t1 == q.m[2] * len + t2 \div LIMB
        top == q.m[1] * len + t1 \div LIMB
        \* the product has 52 + BitLen(top) bits: t of them are rounded away
        t == BitLen(top) - 1
        low2 == (t4 % LIMB) + LIMB * (t3 % LIMB)
        low == low2 % (2 ^ t)
        up == /\ t > 0
              /\ \/ 2 * low > 2 ^ t
                 \/ 2 * low = 2 ^ t /\ (low2 \div (2 ^ t)) % 2 = 1
        w == low2 - low + (IF up THEN 2 ^ t ELSE 0)
        e2 == (t2 % LIMB) + w \div (LIMB * LIMB)
        e1 == (t1 % LIMB) + e2 \div LIMB
        rounded == top + e1 \div LIMB
    IN  IF q.n >= 4 * 13
        THEN rounded \div (2 ^ (q.n - 4 * 13))
        ELSE rounded * (2 ^ (4 * 13 - q.n)) + ((e1 % LIMB) * (2 ^ (4 * 13 - q.n))) \div LIMB

\* the double p is smaller than the double q (both positive, leading limb 1)
DoubleLess(p, q) ==
    \/ p.n > q.n
    \/ /\ p.n = q.n
       /\ \E k \in 1..5 : p.m[k] < q.m[k] /\ \A j \in 1..(k - 1) : p.m[j] = q.m[j]

\* Math.min(p, q) of two positive doubles
DoubleMin(p, q) == IF DoubleLess(q, p) THEN q ELSE p

\* the double 2^k * q: the same significand, the exponent raised by k
DoubleShift(q, k) == [m |-> q.m, n |-> q.n - k]

----------------------------------------------------------------------------
(* Trigonometry in fixed point *)

PI == 3142

HALF_PI == PI \div 2

TWO_PI == 2 * PI

\* sin on [0, PI] by Bhaskara's formula 16x(PI-x) / (5 PI^2 - 4x(PI-x))
SinHalf(x) ==
    LET xx == x * (PI - x)
    IN  (400 * xx) \div ((5 * PI * PI - 4 * xx) \div 40)

Sin(x) ==
    LET y == x % TWO_PI
    IN  IF y <= PI THEN SinHalf(y) ELSE -SinHalf(y - PI)

Cos(x) == Sin(x + HALF_PI)

RECURSIVE SqrtSearch(_, _, _)
SqrtSearch(v, lo, hi) ==
    IF lo >= hi THEN lo
    ELSE LET mid == (lo + hi + 1) \div 2
         IN  IF mid * mid <= v THEN SqrtSearch(v, mid, hi)
                               ELSE SqrtSearch(v, lo, mid - 1)

\* Math.sqrt of a fixed-point number x >= 0
Sqrt(x) == SqrtSearch(x * SCALE, 0, 40000)

\* atan on [-1, 1]: z * (PI/4 + 0.273 * (1 - |z|))
AtanUnit(z) == Mul(z, PI \div 4 + Mul(273, SCALE - Abs(z)))

Atan2(y, x) ==
    IF x = 0 /\ y = 0 THEN 0
    ELSE IF Abs(y) <= Abs(x)
         THEN LET a == AtanUnit(Quot(y, x))
              IN  IF x > 0 THEN a ELSE IF y >= 0 THEN a + PI ELSE a - PI
         ELSE LET a == AtanUnit(Quot(x, y))
              IN  IF y > 0 THEN HALF_PI - a ELSE -HALF_PI - a

----------------------------------------------------------------------------
(* Typed-array reads.  A buffer is the sequence of a Float32Array's elements;  *)
(* the element at JavaScript index k is the (k+1)-th of the sequence, and a    *)
(* read past the end yields undefined.                                         *)

Read(buf, k) == IF (k + 1) \in DOMAIN buf THEN buf[k + 1] ELSE NaN

----------------------------------------------------------------------------
(* easeInOutCubic, for t in [0, 1] *)

easeInOutCubic(t) ==
    IF 2 * t < SCALE
    THEN DivT(4 * t * t * t, SCALE * SCALE)
    ELSE SCALE - DivT((2 * SCALE - 2 * t) * (2 * SCALE - 2 * t) * (2 * SCALE - 2 * t),
                      2 * SCALE * SCALE)

----------------------------------------------------------------------------
(* The transition styles.  Each takes a record a with the per-particle locals  *)
(* of the frame loop: sx, sy, sz, tx, ty, tz, e (easedProgress), i, time and   *)
(* rnd (the value Math.random() returns in this iteration), and yields         *)
(* <<px, py, pz>>.                                                             *)

\* Math.sin(x) * 43758.5453 % 1, the per-particle pseudo-random number
Hash(s) == Frac(s * 43758 + DivT(s * 545, SCALE))

\* p < 0.5 ? p * 2 : (1 - p) * 2
TwoPhase(e) == IF 2 * e < SCALE THEN e * 2 ELSE (SCALE - e) * 2

Lerp(s, t, e) == s + Mul(t - s, e)

StyleMorph(a) ==
    <<Lerp(a.sx, a.tx, a.e), Lerp(a.sy, a.ty, a.e), Lerp(a.sz, a.tz, a.e)>>

StyleExplode(a) ==
    LET explodePhase == TwoPhase(a.e)
        explodeForce == Sin(Mul(explodePhase, PI)) * 3
        angle == Atan2(a.sy, a.sx)
    IN  IF 2 * a.e < SCALE
        THEN <<a.sx + Mul(Cos(angle + a.i * 10), explodeForce),
               a.sy + Mul(Sin(angle + a.i * 10), explodeForce),
               a.sz + Mul(a.rnd - 500, explodeForce)>>
        ELSE <<a.tx + Mul(Mul(Cos(angle + a.i * 10), explodeForce), SCALE - a.e) * 2,
               a.ty + Mul(Mul(Sin(angle + a.i * 10), explodeForce), SCALE - a.e) * 2,
               a.tz>>

StyleSwirl(a) ==
    LET swirlAngle == Mul(a.e, PI) * 4
        swirlRadius == Mul(Sin(Mul(a.e, PI)), 500)
    IN  <<Lerp(a.sx, a.tx, a.e) + Mul(Cos(swirlAngle + a.i * 20), swirlRadius),
          Lerp(a.sy, a.ty, a.e) + Mul(Sin(swirlAngle + a.i * 20), swirlRadius),
          Lerp(a.sz, a.tz, a.e)
              + Mul(Mul(Sin(Mul(swirlAngle, 500) + a.i * 10), swirlRadius), 500)>>

StyleWave(a) ==
    LET waveOffset == Mul(Sin(Mul(a.e, PI) * 2 + a.sx * 2),
                          SCALE - Abs(a.e - 500) * 2)
    IN  <<Lerp(a.sx, a.tx, a.e),
          Lerp(a.sy, a.ty, a.e) + Mul(waveOffset, 500),
          Lerp(a.sz, a.tz, a.e)
              + Mul(Mul(Cos(Mul(a.e, PI) * 2 + a.sy * 2), waveOffset), 300)>>

StyleDepth(a) ==
    LET depthPhase == TwoPhase(a.e)
        depthOffset == Sin(Mul(depthPhase, PI)) * 5
    IN  IF 2 * a.e < SCALE
        THEN <<a.sx, a.sy, a.sz - depthOffset>>
        ELSE <<a.tx, a.ty, a.tz - Mul(depthOffset, SCALE - a.e) * 2>>

StyleDissolve(a) ==
    LET noise == Mul(Sin(a.i * 100 + a.time), 500)
        fade == IF 2 * a.e < SCALE THEN Sin(Mul(a.e, PI))
                                   ELSE Sin(Mul(SCALE - a.e, PI))
    IN  <<Lerp(a.sx, a.tx, a.e) + Mul(noise, fade),
          Lerp(a.sy, a.ty, a.e) + Mul(Mul(Cos(a.i * 100 + a.time), 300), fade),
          Lerp(a.sz, a.tz, a.e) + Mul(Sin(a.i * 50 + a.time * 2), fade)>>

StyleSpiral(a) ==
    LET spiralAngle == Mul(a.e, PI) * 6 + a.i
        spiralRadius == Sin(Mul(a.e, PI)) * 2
        spiralHeight == a.e * 2 - SCALE
    IN  <<Lerp(a.sx, a.tx, a.e) + Mul(Mul(Cos(spiralAngle), spiralRadius), 300),
          Lerp(a.sy, a.ty, a.e) + Mul(Mul(Sin(spiralAngle), spiralRadius), 300),
          Lerp(a.sz, a.tz, a.e) + Mul(spiralHeight, 500)>>

StyleGravity(a) ==
    LET fallPhase == TwoPhase(a.e)
        fallAmount == Mul(fallPhase, fallPhase) * 3
        bounceOffset == Mul(Mul(Abs(Sin(Mul(fallPhase, PI) * 3)), SCALE - fallPhase), 500)
    IN  IF 2 * a.e < SCALE
        THEN <<a.sx, a.sy - fallAmount + bounceOffset, a.sz>>
        ELSE <<a.tx, a.ty - Mul(fallAmount, SCALE - a.e) * 2 + bounceOffset, a.tz>>

StyleVortex(a) ==
    LET vortexAngle == Mul(a.e, PI) * 8
        vortexRadius == Mul(Mul(SCALE - a.e, Sqrt(Mul(a.sx, a.sx) + Mul(a.sy, a.sy))), 500)
        vortexZ == a.e * 4 - 2 * SCALE
    IN  <<Lerp(a.sx, a.tx, a.e) + Mul(Cos(vortexAngle + Atan2(a.sy, a.sx)), vortexRadius),
          Lerp(a.sy, a.ty, a.e) + Mul(Sin(vortexAngle + Atan2(a.sy, a.sx)), vortexRadius),
          Lerp(a.sz, a.tz, a.e) + Mul(vortexZ, Sin(Mul(a.e, PI)))>>

\* Math.round(v / gridSize) * gridSize
Snap(v, gridSize) == Round(Quot(v, gridSize)) * gridSize

StylePixelate(a) ==
    LET gridSize == 200
        snapPhase == Sin(Mul(a.e, PI))
        snappedSx == Snap(a.sx, gridSize)
        snappedSy == Snap(a.sy, gridSize)
        snappedTx == Snap(a.tx, gridSize)
        snappedTy == Snap(a.ty, gridSize)
    IN  <<a.sx + Mul(snappedSx - a.sx, snapPhase) + Mul(a.tx - a.sx, a.e)
               + Mul(Mul(snappedTx - a.tx, SCALE - snapPhase), a.e),
          a.sy + Mul(snappedSy - a.sy, snapPhase) + Mul(a.ty - a.sy, a.e)
               + Mul(Mul(snappedTy - a.ty, SCALE - snapPhase), a.e),
          Lerp(a.sz, a.tz, a.e)>>

StyleShatter(a) ==
    LET shatterPhase == TwoPhase(a.e)
        shatterOffset == Sin(Mul(shatterPhase, PI)) * 2
        angle == Atan2(a.sy, a.sx) + a.i
        randomDir == Hash(Sin(a.i * 12990))
    IN  IF 2 * a.e < SCALE
        THEN <<a.sx + Mul(Mul(Cos(angle), shatterOffset), randomDir),
               a.sy + Mul(Mul(Sin(angle), shatterOffset), randomDir) - shatterPhase * 2,
               a.sz + Mul(randomDir - 500, shatterOffset)>>
        ELSE <<a.tx + Mul(Mul(Mul(Cos(angle), shatterOffset), randomDir), SCALE - a.e),
               a.ty + Mul(Mul(Mul(Sin(angle), shatterOffset), randomDir), SCALE - a.e),
               a.tz>>

StyleMagnetic(a) ==
    LET magnetPhase == Sin(Mul(a.e, PI))
        centerDist == Sqrt(Mul(a.sx, a.sx) + Mul(a.sy, a.sy))
        attractForce == Mul(magnetPhase, IF centerDist > SCALE THEN -500 ELSE 1500)
    IN  <<Lerp(a.sx, a.tx, a.e) + Mul(Mul(a.sx, attractForce), 300),
          Lerp(a.sy, a.ty, a.e) + Mul(Mul(a.sy, attractForce), 300),
          Lerp(a.sz, a.tz, a.e) + Mul(magnetPhase, 500)>>

StyleRipple(a) ==
    LET dist == Sqrt(Mul(a.sx, a.sx) + Mul(a.sy, a.sy))
        rippleWave == Mul(Sin(dist * 5 - Mul(a.e, PI) * 4), SCALE - a.e)
    IN  <<Lerp(a.sx, a.tx, a.e),
          Lerp(a.sy, a.ty, a.e),
          Lerp(a.sz, a.tz, a.e) + Mul(rippleWave, 500)>>

StyleScatter(a) ==
    LET scatterPhase == IF a.e < 300 THEN Quot(a.e, 300)
                        ELSE IF a.e > 700 THEN Quot(SCALE - a.e, 300)
                        ELSE SCALE
        randomX == (Hash(Sin(a.i * 12990)) - 500) * 4
        randomY == (Hash(Cos(a.i * 78233)) - 500) * 4
        randomZ == (Hash(Sin(a.i * 43232)) - 500) * 2
    IN  <<Lerp(a.sx, a.tx, a.e) + Mul(randomX, scatterPhase),
          Lerp(a.sy, a.ty, a.e) + Mul(randomY, scatterPhase),
          Lerp(a.sz, a.tz, a.e) + Mul(randomZ, scatterPhase)>>

StyleTornado(a) ==
    LET tornadoAngle == Mul(a.e, PI) * 8 + a.i
        heightFactor == ((a.i % 100) * SCALE) \div 100
        tornadoRadius == Mul(SCALE - heightFactor, 500) + Mul(Sin(Mul(a.e, PI)), 500)
    IN  <<Lerp(a.sx, a.tx, a.e) + Mul(Cos(tornadoAngle), tornadoRadius),
          Lerp(a.sy, a.ty, a.e) + Mul((heightFactor - 500) * 2, Sin(Mul(a.e, PI))),
          Lerp(a.sz, a.tz, a.e) + Mul(Sin(tornadoAngle), tornadoRadius)>>

KnownStyles ==
    {"morph", "explode", "swirl", "wave", "depth", "dissolve", "spiral", "gravity",
     "vortex", "pixelate", "shatter", "magnetic", "ripple", "scatter", "tornado"}

\* the switch on transitionStyle: it has no default case, so any other value
\* leaves px, py, pz at their initial values sx, sy, sz
ApplyTransition(style, a) ==
    CASE style = "morph"    -> StyleMorph(a)
      [] style = "explode"  -> StyleExplode(a)
      [] style = "swirl"    -> StyleSwirl(a)
      [] style = "wave"     -> StyleWave(a)
      [] style = "depth"    -> StyleDepth(a)
      [] style = "dissolve" -> StyleDissolve(a)
      [] style = "spiral"   -> StyleSpiral(a)
      [] style = "gravity"  -> StyleGravity(a)
      [] style = "vortex"   -> StyleVortex(a)
      [] style = "pixelate" -> StylePixelate(a)
      [] style = "shatter"  -> StyleShatter(a)
      [] style = "magnetic" -> StyleMagnetic(a)
      [] style = "ripple"   -> StyleRipple(a)
      [] style = "scatter"  -> StyleScatter(a)
      [] style = "tornado"  -> StyleTornado(a)
      [] OTHER              -> <<a.sx, a.sy, a.sz>>

----------------------------------------------------------------------------
(* generateParticlesFromImage.  An ImageData is [width, height, data], data    *)
(* the RGBA bytes in row-major order.  rnd[i] is the triple of values that     *)
(* Math.random() returns while particle i is generated.                        *)

\* the byte of channel c (0..3) of the pixel at (x, y)
Byte(imageData, x, y, c) == imageData.data[(y * imageData.width + x) * 4 + c + 1]

\* a = data[pixelIndex + 3] / 255; a > 0.1
IsValidPixel(imageData, x, y) == Byte(imageData, x, y, 3) * 10 > 255

RECURSIVE CollectValid(_, _)
\* the valid pixels among those of row-major number n and above
CollectValid(imageData, n) ==
    IF n >= imageData.width * imageData.height THEN <<>>
    ELSE LET x == n % imageData.width
             y == n \div imageData.width
             rest == CollectValid(imageData, n + 1)
         IN  IF IsValidPixel(imageData, x, y)
             THEN <<[x |-> x, y |-> y,
                     r |-> (Byte(imageData, x, y, 0) * SCALE) \div 255,
                     g |-> (Byte(imageData, x, y, 1) * SCALE) \div 255,
                     b |-> (Byte(imageData, x, y, 2) * SCALE) \div 255]>> \o rest
             ELSE rest

validPixels(imageData) == CollectValid(imageData, 0)

\* Math.floor((i / particleCount) * validPixels.length) for 0 <= i < particleCount:
\* the quotient is rounded to a double, the product is rounded to a double,
\* then the floor is taken
pixelIdx(i, count, len) ==
    IF i = 0 THEN 0 ELSE FloorOfProduct(DoubleDiv(i, count), len)

\* the index of validPixels[Math.min(pixelIdx, validPixels.length - 1)]
PixelIndex(i, count, len) == Min(pixelIdx(i, count, len), len - 1)

\* GenerateParticle whose fallback forgets to centre the random position:
\* Math.random() * scaleX instead of (Math.random() - 0.5) * scaleX
GenerateParticleUncentred(imageData, valid, count, i, draws) ==
    LET width == imageData.width
        height == imageData.height
        aspectRatio == (width * SCALE) \div height
        scaleX == 4 * aspectRatio
        scaleY == 4 * SCALE
    IN  IF Len(valid) > 0
        THEN LET pixel == valid[PixelIndex(i, count, Len(valid)) + 1]
                 jitterX == Mul(draws[1] - 500, 50)
                 jitterY == Mul(draws[2] - 500, 50)
             IN  <<Mul((pixel.x * SCALE) \div width - 500, scaleX) + jitterX,
                   -Mul((pixel.y * SCALE) \div height - 500, scaleY) + jitterY,
                   Mul(draws[3] - 500, 100),
                   pixel.r, pixel.g, pixel.b>>
        ELSE <<Mul(draws[1], scaleX), Mul(draws[2], scaleY), 0, 500, 500, 500>>

\* <<px, py, pz, r, g, b>> of particle i; valid is validPixels
GenerateParticle(imageData, valid, count, i, draws) ==
    LET width == imageData.width
        height == imageData.height
        aspectRatio == (width * SCALE) \div height
        scaleX == 4 * aspectRatio
        scaleY == 4 * SCALE
    IN  IF Len(valid) > 0
        THEN LET pixel == valid[PixelIndex(i, count, Len(valid)) + 1]
                 jitterX == Mul(draws[1] - 500, 50)
                 jitterY == Mul(draws[2] - 500, 50)
             IN  <<Mul((pixel.x * SCALE) \div width - 500, scaleX) + jitterX,
                   -Mul((pixel.y * SCALE) \div height - 500, scaleY) + jitterY,
                   Mul(draws[3] - 500, 100),
                   pixel.r, pixel.g, pixel.b>>
        ELSE <<Mul(draws[1] - 500, scaleX), Mul(draws[2] - 500, scaleY), 0,
               500, 500, 500>>

RECURSIVE FlatFrom(_, _, _, _)
\* the elements of particles i .. count - 1
FlatFrom(i, count, particle, offset) ==
    IF i >= count THEN <<>>
    ELSE LET p == particle[i]
         IN  <<p[1 + offset], p[2 + offset], p[3 + offset]>>
                 \o FlatFrom(i + 1, count, particle, offset)

\* the Float32Array of 3 * count elements whose particle i holds
\* particle[i][offset + 1 .. offset + 3]
Flat(count, particle, offset) == FlatFrom(0, count, particle, offset)

\* generateParticlesFromImage that allocates one particle per valid pixel
\* when the image has fewer valid pixels than particles were asked for
generateParticlesPerPixel(imageData, count, rnd) ==
    LET valid == validPixels(imageData)
        n == IF Len(valid) > 0 THEN Min(count, Len(valid)) ELSE count
        particle == [i \in 0..(n - 1) |->
                        GenerateParticle(imageData, valid, n, i, rnd[i])]
    IN  [positions |-> Flat(n, particle, 0), colors |-> Flat(n, particle, 3)]

generateParticlesFromImage(imageData, count, rnd) ==
    LET valid == validPixels(imageData)
        particle == [i \in 0..(count - 1) |->
                        GenerateParticle(imageData, valid, count, i, rnd[i])]
    IN  [positions |-> Flat(count, particle, 0), colors |-> Flat(count, particle, 3)]

\* the element loadImages pushes: { data, positions, colors }
ImageDataState(data, count, rnd) ==
    LET particles == generateParticlesFromImage(data, count, rnd)
    IN  [data |-> data, positions |-> particles.positions, colors |-> particles.colors]

\* no loadImages() call has published, or the last setImageDataStates was the
\* effect's own setImageDataStates([])
NoBatch == <<>>

----------------------------------------------------------------------------
(* ParticleSystem: the default particles and the empty geometry of a mount *)

\* sin(acos(u)) for u in [-1, 1]
SinAcos(u) == Sqrt(SCALE * 1 - Mul(u, u))

DefaultParticle(count, i, draws) ==
    LET theta == Mul(draws[1], TWO_PI)
        u == 2 * draws[2] - SCALE
        radius == 2 * SCALE + Mul(draws[3], 500)
        hue == Mul((i * SCALE) \div count, 300) + 500
    IN  <<Mul(Mul(radius, SinAcos(u)), Cos(theta)),
          Mul(Mul(radius, SinAcos(u)), Sin(theta)),
          Mul(radius, u),
          Mul(hue, 300), Mul(hue, 700), hue>>

DefaultParticles(count, rnd) ==
    LET particle == [i \in 0..(count - 1) |-> DefaultParticle(count, i, rnd[i])]
    IN  [positions |-> Flat(count, particle, 0), colors |-> Flat(count, particle, 3)]

InitialPositions(count) == [k \in 1..(3 * count) |-> 0]

InitialColors(count) == [k \in 1..(3 * count) |-> 500]

----------------------------------------------------------------------------
(* ParticleCanvas: the timeline mapper (the useMemo on assets.length,          *)
(* currentTime and duration).  duration / transitionCount is kept as the exact *)
(* quotient, so currentTime / transitionDuration is currentTime *              *)
(* transitionCount / duration; duration > 0.                                   *)

transitionCount(len) == len - 1

\* currentImageIndexOf without the two early returns for 0 and 1 assets
currentImageIndexNoGuard(len, time, dur) ==
    Min((time * transitionCount(len)) \div dur, transitionCount(len) - 1)

\* currentImageIndexOf without Math.min(..., transitionCount - 1)
currentImageIndexUnclamped(len, time, dur) ==
    IF len = 0 THEN 0
    ELSE IF len = 1 THEN 0
    ELSE (time * transitionCount(len)) \div dur

currentImageIndexOf(len, time, dur) ==
    IF len = 0 THEN 0
    ELSE IF len = 1 THEN 0
    ELSE Min((time * transitionCount(len)) \div dur, transitionCount(len) - 1)

\* transitionProgressOf that forgets transitionStart: currentTime / duration
transitionProgressGlobal(len, time, dur) ==
    IF len = 0 THEN 0
    ELSE IF len = 1 THEN 0
    ELSE Min(SCALE, (time * SCALE) \div dur)

transitionProgressOf(len, time, dur) ==
    IF len = 0 THEN 0
    ELSE IF len = 1 THEN 0
    ELSE LET currentIndex == currentImageIndexOf(len, time, dur)
         IN  Min(SCALE, ((time * transitionCount(len) - currentIndex * dur) * SCALE) \div dur)

currentImageIndex == currentImageIndexOf(Len(assets), currentTime, duration)

transitionProgress == transitionProgressOf(Len(assets), currentTime, duration)

----------------------------------------------------------------------------
(* ParticleSystem: source and target selection *)

nextImageIndexOf(cur, len) == (cur + 1) % Max(1, len)

nextImageIndex == nextImageIndexOf(currentImageIndex, Len(imageDataStates))

HasImage(images, k) == (k + 1) \in DOMAIN images

sourcePositionsOf(images, cur, dflt) ==
    IF HasImage(images, cur) THEN images[cur + 1].positions ELSE dflt.positions

sourceColorsOf(images, cur, dflt) ==
    IF HasImage(images, cur) THEN images[cur + 1].colors ELSE dflt.colors

targetPositionsOf(images, cur, dflt) ==
    LET next == nextImageIndexOf(cur, Len(images))
    IN  IF HasImage(images, next) THEN images[next + 1].positions
        ELSE sourcePositionsOf(images, cur, dflt)

targetColorsOf(images, cur, dflt) ==
    LET next == nextImageIndexOf(cur, Len(images))
    IN  IF HasImage(images, next) THEN images[next + 1].colors
        ELSE sourceColorsOf(images, cur, dflt)

----------------------------------------------------------------------------
(* ParticleSystem: one iteration of the loop of the useFrame callback.  st is  *)
(* the settings record, progress the transitionProgress prop, time the value   *)
(* of animationRef.current.time after this frame's increment.                  *)

\* the locals sx .. tz of iteration i, with the style's other inputs
ParticleLocals(i, sourcePositions, targetPositions, progress, time, rnd) ==
    LET idx == i * 3
        sx == OrElse(Read(sourcePositions, idx), 0)
        sy == OrElse(Read(sourcePositions, idx + 1), 0)
        sz == OrElse(Read(sourcePositions, idx + 2), 0)
    IN  [sx |-> sx, sy |-> sy, sz |-> sz,
         tx |-> OrElse(Read(targetPositions, idx), sx),
         ty |-> OrElse(Read(targetPositions, idx + 1), sy),
         tz |-> OrElse(Read(targetPositions, idx + 2), sz),
         e |-> easeInOutCubic(progress), i |-> i, time |-> time, rnd |-> rnd]

\* IdleMotion that floats the particles whenever the animation plays, also
\* during a transition
IdleMotionWhilePlaying(p, i, isPlaying, progress, time) ==
    IF isPlaying
    THEN LET floatOffset == Mul(Sin(Mul(time, 500) + i * 10), 20)
             waveOffset == Mul(Sin(Mul(time, 300) + p[1] * 2), 10)
             py == p[2] + floatOffset
         IN  <<p[1] + waveOffset, py, p[3] + Mul(Sin(Mul(time, 400) + py * 2), 10)>>
    ELSE p

\* the subtle floating animation added when playing and not in a transition
IdleMotion(p, i, isPlaying, progress, time) ==
    IF isPlaying /\ progress = 0
    THEN LET floatOffset == Mul(Sin(Mul(time, 500) + i * 10), 20)
             waveOffset == Mul(Sin(Mul(time, 300) + p[1] * 2), 10)
             py == p[2] + floatOffset
         IN  <<p[1] + waveOffset, py, p[3] + Mul(Sin(Mul(time, 400) + py * 2), 10)>>
    ELSE p

\* pz += brightness * 0.5 - 0.25, brightness the mean of the source color
DepthEffect(p, i, depthEnabled, sourceColors) ==
    IF depthEnabled
    THEN LET sum == AddN(AddN(Read(sourceColors, i * 3), Read(sourceColors, i * 3 + 1)),
                         Read(sourceColors, i * 3 + 2))
             brightness == IF IsNaN(sum) THEN NaN ELSE DivT(sum, 3)
         IN  <<p[1], p[2], AddN(p[3], SubN(MulN(brightness, 500), 250))>>
    ELSE p

PositionOf(i, sourcePositions, targetPositions, sourceColors, st, progress, time, rnd) ==
    LET a == ParticleLocals(i, sourcePositions, targetPositions, progress, time, rnd)
    IN  DepthEffect(IdleMotion(ApplyTransition(st.transitionStyle, a),
                               i, st.isPlaying, progress, time),
                    i, st.depthEnabled, sourceColors)

\* the color of channel k (0..2) before grading
BlendChannel(idx, sourceColors, targetColors, progress, imagesLength) ==
    IF progress = 0 \/ imagesLength <= 1
    THEN OrElse(Read(sourceColors, idx), 500)
    ELSE LET s == Read(sourceColors, idx)
         IN  AddN(s, MulN(SubN(OrElse(Read(targetColors, idx), s), s),
                          easeInOutCubic(progress)))

\* Clamp01 without the lower bound: Math.min(1, c)
Clamp01NoFloor(c) == IF IsNaN(c) THEN NaN ELSE Min(SCALE, c)

\* Math.max(0, Math.min(1, c))
Clamp01(c) == IF IsNaN(c) THEN NaN ELSE Max(0, Min(SCALE, c))

\* brightness, then contrast around 0.5, then saturation, then the clamp
Grade(rgb, st) ==
    LET r1 == MulN(rgb[1], st.colorBrightness)
        g1 == MulN(rgb[2], st.colorBrightness)
        b1 == MulN(rgb[3], st.colorBrightness)
        r2 == AddN(MulN(SubN(r1, 500), st.colorContrast), 500)
        g2 == AddN(MulN(SubN(g1, 500), st.colorContrast), 500)
        b2 == AddN(MulN(SubN(b1, 500), st.colorContrast), 500)
        gray == AddN(AddN(MulN(r2, 299), MulN(g2, 587)), MulN(b2, 114))
    IN  <<Clamp01(AddN(gray, MulN(SubN(r2, gray), st.colorSaturation))),
          Clamp01(AddN(gray, MulN(SubN(g2, gray), st.colorSaturation))),
          Clamp01(AddN(gray, MulN(SubN(b2, gray), st.colorSaturation)))>>

ColorOf(i, sourceColors, targetColors, st, progress, imagesLength) ==
    Grade(<<BlendChannel(i * 3, sourceColors, targetColors, progress, imagesLength),
            BlendChannel(i * 3 + 1, sourceColors, targetColors, progress, imagesLength),
            BlendChannel(i * 3 + 2, sourceColors, targetColors, progress, imagesLength)>>,
          st)

\* the position array after the loop; time is animationRef.current.time
FramePositions(images, cur, progress, st, count, dflt, time, rnd) ==
    LET sourcePositions == sourcePositionsOf(images, cur, dflt)
        targetPositions == targetPositionsOf(images, cur, dflt)
        sourceColors == sourceColorsOf(images, cur, dflt)
        particle == [i \in 0..(count - 1) |->
                        PositionOf(i, sourcePositions, targetPositions, sourceColors,
                                   st, progress, time, rnd[i])]
    IN  Flat(count, particle, 0)

\* the color array after the loop
FrameColors(images, cur, progress, st, count, dflt) ==
    LET sourceColors == sourceColorsOf(images, cur, dflt)
        targetColors == targetColorsOf(images, cur, dflt)
        particle == [i \in 0..(count - 1) |->
                        ColorOf(i, sourceColors, targetColors, st, progress, Len(images))]
    IN  Flat(count, particle, 0)

----------------------------------------------------------------------------
(* CodeExport: the generator and the frame loop of the React component that    *)
(* generateReactCode emits.                                                    *)

\* <<px, py, pz, r, g, b>> of particle i in the emitted generator: it has no
\* else branch, so without valid pixels the Float32Arrays keep their zeros
ExportedGenerateParticle(imageData, valid, count, i, draws) ==
    LET width == imageData.width
        height == imageData.height
        aspectRatio == (width * SCALE) \div height
        scaleX == 4 * aspectRatio
        scaleY == 4 * SCALE
    IN  IF Len(valid) > 0
        THEN LET pixel == valid[PixelIndex(i, count, Len(valid)) + 1]
                 jitterX == Mul(draws[1] - 500, 50)
                 jitterY == Mul(draws[2] - 500, 50)
             IN  <<Mul((pixel.x * SCALE) \div width - 500, scaleX) + jitterX,
                   -Mul((pixel.y * SCALE) \div height - 500, scaleY) + jitterY,
                   Mul(draws[3] - 500, 100),
                   pixel.r, pixel.g, pixel.b>>
        ELSE <<0, 0, 0, 0, 0, 0>>

ExportedGenerateParticlesFromImage(imageData, count, rnd) ==
    LET valid == validPixels(imageData)
        particle == [i \in 0..(count - 1) |->
                        ExportedGenerateParticle(imageData, valid, count, i, rnd[i])]
    IN  [positions |-> Flat(count, particle, 0), colors |-> Flat(count, particle, 3)]

\* new Float32Array(CONFIG.particleCount * 3)
ExportedZeros(count) == [k \in 1..(3 * count) |-> 0]

\* the emitted mapper counts the loaded images
ExportedImageIndex(images, time, dur) == currentImageIndexOf(Len(images), time, dur)

ExportedProgress(images, time, dur) == transitionProgressOf(Len(images), time, dur)

ExportedSource(images, cur, count, field) ==
    IF HasImage(images, cur) THEN images[cur + 1][field] ELSE ExportedZeros(count)

ExportedTarget(images, cur, count, field) ==
    LET next == nextImageIndexOf(cur, Len(images))
    IN  IF HasImage(images, next) THEN images[next + 1][field]
        ELSE ExportedSource(images, cur, count, field)

\* the emitted loop knows one transition, morph, whatever CONFIG.transitionStyle is
ExportedFramePositions(images, time, dur, count) ==
    LET cur == ExportedImageIndex(images, time, dur)
        progress == ExportedProgress(images, time, dur)
        source == ExportedSource(images, cur, count, "positions")
        target == ExportedTarget(images, cur, count, "positions")
        particle == [i \in 0..(count - 1) |->
                        StyleMorph(ParticleLocals(i, source, target, progress, 0, 0))]
    IN  Flat(count, particle, 0)

\* the emitted loop interpolates the colors and writes them as they are
ExportedFrameColors(images, time, dur, count) ==
    LET cur == ExportedImageIndex(images, time, dur)
        e == easeInOutCubic(ExportedProgress(images, time, dur))
        source == ExportedSource(images, cur, count, "colors")
        target == ExportedTarget(images, cur, count, "colors")
    IN  [k \in 1..(3 * count) |->
            AddN(Read(source, k - 1),
                 MulN(SubN(Read(target, k - 1), Read(source, k - 1)), e))]

----------------------------------------------------------------------------
(* The images of the model: the ImageData that loadImageData resolves with for *)
(* each asset's file_url; asset "x" is one whose image fires onerror.           *)

Pixel(r, g, b, a) == <<r, g, b, a>>

ImageA == [width |-> 2, height |-> 2,
           data |-> Pixel(255, 0, 0, 255) \o Pixel(0, 255, 0, 255)
                    \o Pixel(0, 0, 255, 255) \o Pixel(255, 255, 255, 255)]

ImageB == [width |-> 2, height |-> 1,
           data |-> Pixel(10, 20, 30, 25) \o Pixel(51, 102, 204, 26)]

ImageT == [width |-> 1, height |-> 1, data |-> Pixel(255, 255, 255, 0)]

ImageU == [width |-> 1, height |-> 2,
           data |-> Pixel(200, 100, 50, 25) \o Pixel(0, 0, 0, 0)]

Samples == {ImageA, ImageB, ImageT, ImageU}

AssetIds == {"a", "b", "t", "x"}

\* loadImageData(asset.file_url) resolves (img.onload) rather than rejects
\* (img.onerror)
Loads(asset) == asset \in {"a", "b", "t"}

\* the ImageData that loadImageData resolves with
Decode(asset) ==
    CASE asset = "a" -> ImageA
      [] asset = "b" -> ImageB
      [] OTHER       -> ImageT

----------------------------------------------------------------------------
(* Bounds *)

NumParticles == 2

MaxImages == 2

MaxFrames == 1

MaxCount == 2

\* values of Math.random(), which lies in [0, 1)
Draws == {0, 500, 999}

\* the frame delta of a 60 Hz display
Deltas == {16, PI}

Duration == 2 * SCALE

TimeStep == SCALE \div 2

Times == {0, TimeStep, 2 * TimeStep, Duration}

AllStyles == KnownStyles \cup {"unknown"}

\* every particle draws the same value d from Math.random()
ConstRnd(count, d) == [i \in 0..(count - 1) |-> <<d, d, d>>]

----------------------------------------------------------------------------
(* SpecFrame: the ParticleSystem under fixed props.  The props are drawn in    *)
(* the initial state; the only step is the useFrame callback.                  *)

RECURSIVE DistinctSeqs(_, _)
\* the sequences of distinct elements of S, of length at most n
DistinctSeqs(S, n) ==
    IF n = 0 THEN {<<>>}
    ELSE LET shorter == DistinctSeqs(S, n - 1)
         IN  shorter \cup {Append(q, x) : <<q, x>> \in
                              {y \in shorter \X S : \A k \in DOMAIN y[1] : y[1][k] # y[2]}}

\* buffers that generateParticlesFromImage returns for the images of the model
FrameBuffers(count) ==
    {ImageDataState(ImageA, count, ConstRnd(count, 0)),
     ImageDataState(ImageB, count, ConstRnd(count, 999)),
     ImageDataState(ImageT, count, ConstRnd(count, 500))}

IdentityGrading(style, playing, depth) ==
    [transitionStyle |-> style, isPlaying |-> playing, depthEnabled |-> depth,
     colorContrast |-> SCALE, colorSaturation |-> SCALE, colorBrightness |-> SCALE,
     loop |-> TRUE]

\* the slider ranges: contrast 0.5..2, saturation 0..2, brightness 0.5..2
GradingValues ==
    {[colorContrast |-> c, colorSaturation |-> s, colorBrightness |-> b] :
        c \in {500, 2000}, s \in {0, 2000}, b \in {500, 2000}}

FrameSettings ==
    {IdentityGrading(style, mode[1], mode[2]) :
        style \in AllStyles, mode \in {<<FALSE, FALSE>>, <<TRUE, FALSE>>, <<FALSE, TRUE>>}}
    \cup
    {[transitionStyle |-> "morph", isPlaying |-> FALSE, depthEnabled |-> FALSE,
      colorContrast |-> v.colorContrast, colorSaturation |-> v.colorSaturation,
      colorBrightness |-> v.colorBrightness] : v \in GradingValues}

\* the first n assets of a, b, t, x, a, b, ...
AssetList(n) == [k \in 1..n |-> <<"a", "b", "t", "x">>[((k - 1) % 4) + 1]]

NoRandom(count) == [i \in 0..(count - 1) |-> 0]

\* Math.random() is called only by the first half of the explode style
FrameRandoms(st, progress, count) ==
    IF st.transitionStyle = "explode" /\ 2 * easeInOutCubic(progress) < SCALE
    THEN [0..(count - 1) -> {0, 999}]
    ELSE {NoRandom(count)}

InitFrame ==
    /\ InitPanels
    /\ particleCount = NumParticles
    /\ batches = <<>>
    /\ consoleErrors = <<>>
    /\ edits = 0
    /\ duration = Duration
    /\ animTime = 0
    /\ positions = InitialPositions(NumParticles)
    /\ colors = InitialColors(NumParticles)
    /\ defaultParticles = DefaultParticles(NumParticles, ConstRnd(NumParticles, 250))
    /\ frames = 0
    /\ random = NoRandom(NumParticles)
    /\ gen = <<>>
    /\ published = NoBatch
    /\ imageDataStates \in DistinctSeqs(FrameBuffers(NumParticles), MaxImages)
    /\ assets \in {AssetList(n) : n \in 0..(MaxImages + 1)}
    /\ currentTime \in Times
    /\ settings \in FrameSettings

\* the useFrame callback that adds delta to the animation time on every frame
FrameAlwaysAdvances ==
    /\ frames < MaxFrames
    /\ \E delta \in Deltas, rnd \in FrameRandoms(settings, transitionProgress, particleCount) :
          LET time == animTime + delta
          IN  /\ animTime' = time
              /\ random' = rnd
              /\ positions' = FramePositions(imageDataStates, currentImageIndex,
                                             transitionProgress, settings, particleCount,
                                             defaultParticles, time, rnd)
              /\ colors' = FrameColors(imageDataStates, currentImageIndex,
                                       transitionProgress, settings, particleCount,
                                       defaultParticles)
    /\ frames' = frames + 1
    /\ UNCHANGED <<assets, particleCount, imageDataStates, batches, consoleErrors, edits,
                   currentTime, duration, settings, defaultParticles, gen, published,
                   panelVars>>

\* the useFrame callback
Frame ==
    /\ frames < MaxFrames
    /\ \E delta \in Deltas, rnd \in FrameRandoms(settings, transitionProgress, particleCount) :
          LET time == IF settings.isPlaying THEN animTime + delta ELSE animTime
          IN  /\ animTime' = time
              /\ random' = rnd
              /\ positions' = FramePositions(imageDataStates, currentImageIndex,
                                             transitionProgress, settings, particleCount,
                                             defaultParticles, time, rnd)
              /\ colors' = FrameColors(imageDataStates, currentImageIndex,
                                       transitionProgress, settings, particleCount,
                                       defaultParticles)
    /\ frames' = frames + 1
    /\ UNCHANGED <<assets, particleCount, imageDataStates, batches, consoleErrors, edits,
                   currentTime, duration, settings, defaultParticles, gen, published,
                   panelVars>>

NextFrame == Frame

SpecFrame == InitFrame /\ [][NextFrame]_vars

----------------------------------------------------------------------------
(* Properties of the frame (SpecFrame) *)

sourcePositions == sourcePositionsOf(imageDataStates, currentImageIndex, defaultParticles)

targetPositions == targetPositionsOf(imageDataStates, currentImageIndex, defaultParticles)

sourceColors == sourceColorsOf(imageDataStates, currentImageIndex, defaultParticles)

targetColors == targetColorsOf(imageDataStates, currentImageIndex, defaultParticles)

IdentityGraded ==
    /\ settings.colorContrast = SCALE
    /\ settings.colorSaturation = SCALE
    /\ settings.colorBrightness = SCALE

\* the idle floating motion is applied by the frame
IdleApplied == settings.isPlaying /\ transitionProgress = 0

\* every asset of the list is loaded, and there is at least one: the source and
\* the target of the frame are buffers generated from images
AllLoaded == Len(imageDataStates) = Len(assets) /\ Len(assets) >= 1

\* C1: for each of the 15 styles, with depth-from-brightness disabled and no
\* idle motion, the frame displays every particle at its source position when
\* progress = 0 and at its target position when progress = 1.  (Stated for the
\* frames whose source and target are loaded images.)
C1_BoundaryContinuity ==
    (/\ frames > 0
     /\ AllLoaded
     /\ settings.transitionStyle \in KnownStyles
     /\ ~settings.depthEnabled
     /\ ~IdleApplied)
    => /\ transitionProgress = 0 => positions = sourcePositions
       /\ transitionProgress = SCALE => positions = targetPositions

\* C2: a style that is none of the 15 known styles displays every particle
\* where the morph style would display it, s + (t - s) * easedProgress.
\* (Stated for the frames whose source and target are loaded images.)
C2_UnknownStyleIsMorph ==
    (frames > 0 /\ AllLoaded /\ settings.transitionStyle \notin KnownStyles)
    => positions = FramePositions(imageDataStates, currentImageIndex, transitionProgress,
                                  [settings EXCEPT !.transitionStyle = "morph"],
                                  particleCount, defaultParticles, animTime, random)

\* C3: after every frame each channel of the display color buffer is in [0, 1],
\* for every contrast, saturation and brightness of the sliders' ranges.
C3_ColorClamp ==
    frames > 0 => \A k \in DOMAIN colors : 0 <= colors[k] /\ colors[k] <= SCALE

\* a frame under the strongest grading whose clamp cut a channel at 1 and
\* another at 0
C3_Witness ==
    /\ frames > 0
    /\ AllLoaded
    /\ settings.colorContrast = 2 * SCALE
    /\ settings.colorBrightness = 2 * SCALE
    /\ settings.colorSaturation = 2 * SCALE
    /\ \E k \in DOMAIN colors : colors[k] = SCALE
    /\ \E k \in DOMAIN colors : colors[k] = 0
C8_SingleImageStatic ==
    (/\ frames > 0
     /\ Len(imageDataStates) = 1
     /\ Len(assets) = 1
     /\ ~settings.isPlaying
     /\ ~settings.depthEnabled)
    => /\ positions = imageDataStates[1].positions
       /\ IdentityGraded => colors = imageDataStates[1].colors

\* C14: the emitted component replays the live engine: from the same images,
\* settings, playhead and random draws its generator and its frame loop give
\* the positions and colors the live generator and frame loop give
C14_ExportReplaysEngine ==
    (frames > 0 /\ AllLoaded)
       => /\ positions = ExportedFramePositions(imageDataStates, currentTime, duration,
                                                particleCount)
          /\ colors = ExportedFrameColors(imageDataStates, currentTime, duration,
                                          particleCount)
          /\ \A imageData \in Samples :
                ExportedGenerateParticlesFromImage(imageData, particleCount,
                                                   ConstRnd(particleCount, 500))
                   = generateParticlesFromImage(imageData, particleCount,
                                                ConstRnd(particleCount, 500))

\* C16: the displayed positions are a function of the source and target
\* positions, the progress, the particle index and the time: evaluating the
\* frame again from the same values, whatever Math.random() returns, gives
\* the positions that were displayed
C16_PositionsDeterministic ==
    (frames > 0 /\ AllLoaded)
       => \A rnd \in FrameRandoms(settings, transitionProgress, particleCount) :
             positions = FramePositions(imageDataStates, currentImageIndex,
                                        transitionProgress, settings, particleCount,
                                        defaultParticles, animTime, rnd)

\* C17: under morph every displayed coordinate is s + (t - s) *
\* easeInOutCubic(progress), t being the coordinate stored in the target
\* buffer, also when that stored value is 0 (no idle motion, no depth effect)
C17_MorphInterpolates ==
    (/\ frames > 0
     /\ AllLoaded
     /\ settings.transitionStyle = "morph"
     /\ ~settings.depthEnabled
     /\ ~IdleApplied)
       => \A k \in DOMAIN positions :
             positions[k] = Lerp(sourcePositions[k], targetPositions[k],
                                 easeInOutCubic(transitionProgress))

\* C18: at progress 0, or with at most one image loaded, the displayed color
\* under identity grading is the source color, for every source channel value
\* including 0
C18_SourceColorVerbatim ==
    (/\ frames > 0
     /\ AllLoaded
     /\ IdentityGraded
     /\ (transitionProgress = 0 \/ Len(imageDataStates) <= 1))
       => colors = sourceColors

\* C19: with two or more images, progress 1 and identity grading the displayed
\* color is the target color, for every target channel value including 0
C19_TargetColorAtEnd ==
    (/\ frames > 0
     /\ AllLoaded
     /\ IdentityGraded
     /\ Len(imageDataStates) >= 2
     /\ transitionProgress = SCALE)
       => colors = targetColors

\* the positions the frame would have written without the idle motion: the
\* same frame with isPlaying false at the same animation time
PositionsWithoutIdle ==
    FramePositions(imageDataStates, currentImageIndex, transitionProgress,
                   [settings EXCEPT !.isPlaying = FALSE],
                   particleCount, defaultParticles, animTime, random)

\* C22: when progress = 0 and isPlaying, the idle motion moves each coordinate
\* of every particle by at most 0.02 from the position computed without it,
\* and the displayed color is the one displayed with isPlaying false; when
\* progress # 0 or not isPlaying, no idle displacement is added.
C22_IdleMotionBounded ==
    frames > 0 =>
        /\ LET still == PositionsWithoutIdle
           IN  \A k \in DOMAIN positions :
                  IF IdleApplied
                  THEN Abs(positions[k] - still[k]) <= 20
                  ELSE positions[k] = still[k]
        /\ colors = FrameColors(imageDataStates, currentImageIndex, transitionProgress,
                                [settings EXCEPT !.isPlaying = FALSE],
                                particleCount, defaultParticles)

\* a frame whose idle motion has moved a particle by the whole 0.02
C22_Witness ==
    /\ frames > 0
    /\ IdleApplied
    /\ AllLoaded
    /\ LET still == PositionsWithoutIdle
       IN  \E k \in DOMAIN positions : Abs(positions[k] - still[k]) = 20

----------------------------------------------------------------------------
(* SpecGen: generateParticlesFromImage as a function of the sample, the count  *)
(* and the values Math.random() returns.                                       *)

InitGen ==
    /\ InitPanels
    /\ assets = <<>>
    /\ particleCount = NumParticles
    /\ imageDataStates = <<>>
    /\ batches = <<>>
    /\ consoleErrors = <<>>
    /\ edits = 0
    /\ currentTime = 0
    /\ duration = Duration
    /\ settings = IdentityGrading("morph", FALSE, FALSE)
    /\ animTime = 0
    /\ positions = InitialPositions(NumParticles)
    /\ colors = InitialColors(NumParticles)
    /\ defaultParticles = DefaultParticles(NumParticles, ConstRnd(NumParticles, 250))
    /\ frames = 0
    /\ random = NoRandom(NumParticles)
    /\ gen = <<>>
    /\ published = NoBatch

\* the call generateParticlesFromImage(imageData, count)
Generate ==
    /\ gen = <<>>
    /\ \E imageData \in Samples, count \in 1..MaxCount :
          \E rnd \in [0..(count - 1) -> Draws \X Draws \X Draws] :
              gen' = [imageData |-> imageData, count |-> count, rnd |-> rnd,
                      result |-> generateParticlesFromImage(imageData, count, rnd)]
    /\ UNCHANGED <<assets, particleCount, imageDataStates, batches, consoleErrors, edits,
                   currentTime, duration, settings, animTime, positions, colors,
                   defaultParticles, frames, random, published,
                   panelVars>>

NextGen == Generate

SpecGen == InitGen /\ [][NextGen]_vars

\* the pixels of the sample whose alpha byte is above 0.1 * 255
OpaquePixels(imageData) ==
    {n \in 0..(imageData.width * imageData.height - 1) : imageData.data[4 * n + 4] >= 26}

\* C4: generateParticlesFromImage(sample, count) returns a positions array and
\* a colors array of exactly 3 * count numbers each, for samples with no, one
\* or many valid pixels.
C4_BufferLength ==
    gen # <<>> =>
        /\ DOMAIN gen.result.positions = 1..(3 * gen.count)
        /\ DOMAIN gen.result.colors = 1..(3 * gen.count)
        /\ \A k \in 1..(3 * gen.count) :
              ~IsNaN(gen.result.positions[k]) /\ ~IsNaN(gen.result.colors[k])

\* a call with more particles than the sample has valid pixels
C4_Witness ==
    /\ gen # <<>>
    /\ Cardinality(OpaquePixels(gen.imageData)) = 1
    /\ gen.count = MaxCount
    /\ Len(gen.result.positions) = 3 * MaxCount

\* C9: for a sample without a pixel of alpha > 0.1 the generator returns count
\* particles with x in [-scaleX/2, scaleX/2], y in [-scaleY/2, scaleY/2]
\* (scaleY = 4, scaleX = 4 * aspectRatio) and color (0.5, 0.5, 0.5).
C9_TransparentFallback ==
    (gen # <<>> /\ OpaquePixels(gen.imageData) = {}) =>
        /\ Len(gen.result.positions) = 3 * gen.count
        /\ Len(gen.result.colors) = 3 * gen.count
        /\ \A i \in 0..(gen.count - 1) :
              LET halfX == (2 * SCALE * gen.imageData.width) \div gen.imageData.height
                  halfY == 2 * SCALE
              IN  /\ -halfX <= gen.result.positions[3 * i + 1]
                  /\ gen.result.positions[3 * i + 1] <= halfX
                  /\ -halfY <= gen.result.positions[3 * i + 2]
                  /\ gen.result.positions[3 * i + 2] <= halfY
                  /\ gen.result.colors[3 * i + 1] = SCALE \div 2
                  /\ gen.result.colors[3 * i + 2] = SCALE \div 2
                  /\ gen.result.colors[3 * i + 3] = SCALE \div 2

\* a fully transparent sample whose particles drew both ends of Math.random()
C9_Witness ==
    /\ gen # <<>>
    /\ OpaquePixels(gen.imageData) = {}
    /\ gen.imageData.height = 2
    /\ gen.count = MaxCount
    /\ gen.rnd[0] = <<0, 0, 0>>
    /\ gen.rnd[MaxCount - 1] = <<999, 999, 999>>

----------------------------------------------------------------------------
(* SpecSample: generateParticlesFromImage on images whose pixels all differ in  *)
(* colour, so that the colour of a particle names the pixel it was sampled     *)
(* from.                                                                       *)

MaxWidth == 12

MaxSampled == 24

\* the alpha bytes around the threshold a / 255 > 0.1
AlphaPatterns == {"opaque", "holes"}

\* the alpha byte of pixel n: in "holes" every third pixel has alpha 25
\* (25 / 255 < 0.1) and the others alpha 26 (26 / 255 > 0.1)
AlphaOf(pattern, n) ==
    IF pattern = "opaque" THEN 255 ELSE IF n % 3 = 1 THEN 25 ELSE 26

\* the ImageData of w x h pixels whose pixel number n is (n, 255 - n, 7, alpha)
Grid(w, h, pattern) ==
    [width |-> w, height |-> h,
     data |-> [k \in 1..(4 * w * h) |->
                  LET n == (k - 1) \div 4
                      c == (k - 1) % 4
                  IN  IF c = 0 THEN n
                      ELSE IF c = 1 THEN 255 - n
                      ELSE IF c = 2 THEN 7
                      ELSE AlphaOf(pattern, n)]]

InitSample == InitGen

\* the call generateParticlesFromImage(imageData, count) on a grid
GenerateFromGrid ==
    /\ gen = <<>>
    /\ \E w \in 1..MaxWidth, h \in 1..2, pattern \in AlphaPatterns, count \in 1..MaxSampled :
          LET imageData == Grid(w, h, pattern)
              rnd == ConstRnd(count, 500)
          IN  gen' = [imageData |-> imageData, count |-> count, rnd |-> rnd,
                      result |-> generateParticlesFromImage(imageData, count, rnd)]
    /\ UNCHANGED <<assets, particleCount, imageDataStates, batches, consoleErrors, edits,
                   currentTime, duration, settings, animTime, positions, colors,
                   defaultParticles, frames, random, published,
                   panelVars>>

NextSample == GenerateFromGrid

SpecSample == InitSample /\ [][NextSample]_vars

RECURSIVE Ascending(_)
\* the numbers of the set S in ascending order
Ascending(S) ==
    IF S = {} THEN <<>>
    ELSE LET least == CHOOSE n \in S : \A m \in S : n <= m
         IN  <<least>> \o Ascending(S \ {least})

\* the colour of pixel number n of the sample, as the generator stores it
ColourOfPixel(imageData, n) ==
    <<(imageData.data[4 * n + 1] * SCALE) \div 255,
      (imageData.data[4 * n + 2] * SCALE) \div 255,
      (imageData.data[4 * n + 3] * SCALE) \div 255>>

\* the colour stored for particle i
ColourOfParticle(result, i) ==
    <<result.colors[3 * i + 1], result.colors[3 * i + 2], result.colors[3 * i + 3]>>

\* C21: for a sample with L >= 1 valid pixels (alpha / 255 > 0.1, in row-major
\* order), particle i takes its colour from valid pixel number
\* min(floor(i * L / count), L - 1), an index within [0, L - 1].
C21_SamplesValidPixelInOrder ==
    (gen # <<>> /\ OpaquePixels(gen.imageData) # {}) =>
        LET valid == Ascending(OpaquePixels(gen.imageData))
            L == Len(valid)
        IN  \A i \in 0..(gen.count - 1) :
               LET k == Min((i * L) \div gen.count, L - 1)
               IN  /\ 0 <= k /\ k <= L - 1
                   /\ ColourOfParticle(gen.result, i) = ColourOfPixel(gen.imageData, valid[k + 1])

----------------------------------------------------------------------------
(* ParticleCanvas: the effect that loads the images of the asset list.  A call  *)
(* of loadImages() is a record of batches: the asset list it iterates over,    *)
(* the particle count it closed over, the position of its for loop, its local  *)
(* states array, and what it has attempted and logged so far.                  *)

MaxAssets == 2

MaxEdits == 2

\* the particle counts the settings can select
ParticleCounts == {NumParticles - 1, NumParticles}

\* the orders the project's assets can be in; asset "x" fails to load
AssetOrders == {<<"a", "b", "x">>, <<"b", "a", "x">>, <<"x", "a", "b">>, <<"a", "x", "b">>}

\* the asset lists the canvas can be handed: the first assets of an order
AssetLists == {SubSeq(order, 1, n) : order \in AssetOrders, n \in 0..Min(MaxAssets, 3)}

\* the values Math.random() returns while one image is sampled
LoadRandoms(count) == {ConstRnd(count, 500)}

\* const states = []; the for loop is at its first asset
\* id numbers the effect runs; prev is the asset list before this run
NewBatch(list, count, id, prev) ==
    [assets |-> list, count |-> count, next |-> 1, states |-> <<>>,
     attempted |-> <<>>, logged |-> <<>>, id |-> id, prev |-> prev]

\* a try block that puts the new buffer in front: states.unshift(...)
AfterResolveUnshift(batch, data, rnd) ==
    [batch EXCEPT !.states = <<ImageDataState(data, batch.count, rnd)>> \o @,
                  !.attempted = Append(@, batch.assets[batch.next]),
                  !.next = @ + 1]

\* the try block ran to its end: states.push({ data, positions, colors })
AfterResolve(batch, data, rnd) ==
    [batch EXCEPT !.states = Append(@, ImageDataState(data, batch.count, rnd)),
                  !.attempted = Append(@, batch.assets[batch.next]),
                  !.next = @ + 1]

\* a rejection that leaves the for loop: nothing after the failing asset is loaded
AfterRejectBreak(batch) ==
    [batch EXCEPT !.attempted = Append(@, batch.assets[batch.next]),
                  !.logged = Append(@, batch.assets[batch.next]),
                  !.next = Len(batch.assets) + 1]

\* the catch block ran: console.error, and the loop goes on with the next asset
AfterReject(batch) ==
    [batch EXCEPT !.attempted = Append(@, batch.assets[batch.next]),
                  !.logged = Append(@, batch.assets[batch.next]),
                  !.next = @ + 1]

\* the continuation after the await of batch b: the loop goes on, or it has
\* ended and setImageDataStates(states) runs
Settle(b, after) ==
    IF after.next > Len(after.assets)
    THEN /\ imageDataStates' = after.states
         /\ published' = [assets |-> after.assets, count |-> after.count,
                          attempted |-> after.attempted, logged |-> after.logged,
                          id |-> after.id, prev |-> after.prev]
         /\ batches' = [k \in 1..(Len(batches) - 1) |->
                           IF k < b THEN batches[k] ELSE batches[k + 1]]
    ELSE /\ batches' = [batches EXCEPT ![b] = after]
         /\ UNCHANGED <<imageDataStates, published>>

Init ==
    /\ InitPanels
    /\ assets = <<>>
    /\ particleCount \in ParticleCounts
    /\ imageDataStates = <<>>
    /\ batches = <<>>
    /\ consoleErrors = <<>>
    /\ edits = 0
    /\ currentTime = 0
    /\ duration = Duration
    /\ settings = IdentityGrading("morph", FALSE, FALSE)
    /\ animTime = 0
    /\ positions = InitialPositions(particleCount)
    /\ colors = InitialColors(particleCount)
    /\ defaultParticles = DefaultParticles(particleCount, ConstRnd(particleCount, 250))
    /\ frames = 0
    /\ random = NoRandom(particleCount)
    /\ gen = <<>>
    /\ published = NoBatch

\* the effect runs because the assets prop changed
AssetsChanged(newAssets) ==
    /\ edits < MaxEdits
    /\ edits' = edits + 1
    /\ assets' = newAssets
    /\ IF Len(newAssets) > 0
       THEN /\ batches' = Append(batches, NewBatch(newAssets, particleCount, edits + 1, assets))
            /\ UNCHANGED <<imageDataStates, published>>
       ELSE /\ imageDataStates' = <<>>
            /\ published' = NoBatch
            /\ UNCHANGED batches
    /\ UNCHANGED <<particleCount, consoleErrors, currentTime, duration, settings, animTime,
                   positions, colors, defaultParticles, frames, random, gen,
                   panelVars>>

\* the particleCount prop changed: ParticleSystem is mounted anew under its
\* key, and the effect runs
ParticleCountChanged(n) ==
    /\ edits < MaxEdits
    /\ n # particleCount
    /\ edits' = edits + 1
    /\ particleCount' = n
    /\ animTime' = 0
    /\ positions' = InitialPositions(n)
    /\ colors' = InitialColors(n)
    /\ defaultParticles' = DefaultParticles(n, ConstRnd(n, 250))
    /\ random' = NoRandom(n)
    /\ IF Len(assets) > 0
       THEN /\ batches' = Append(batches, NewBatch(assets, n, edits + 1, assets))
            /\ UNCHANGED <<imageDataStates, published>>
       ELSE /\ imageDataStates' = <<>>
            /\ published' = NoBatch
            /\ UNCHANGED batches
    /\ UNCHANGED <<assets, consoleErrors, currentTime, duration, settings, frames, gen,
                   panelVars>>

\* loadImageData of batch b's current asset resolved
LoadResolve(b) ==
    /\ b \in DOMAIN batches
    /\ LET batch == batches[b]
           data == Decode(batch.assets[batch.next])
       IN  /\ Loads(batch.assets[batch.next])
           /\ \E rnd \in LoadRandoms(batch.count) : Settle(b, AfterResolve(batch, data, rnd))
    /\ UNCHANGED <<assets, particleCount, consoleErrors, edits, currentTime, duration,
                   settings, animTime, positions, colors, defaultParticles, frames,
                   random, gen,
                   panelVars>>

\* loadImageData of batch b's current asset rejected
LoadReject(b) ==
    /\ b \in DOMAIN batches
    /\ LET batch == batches[b]
       IN  /\ ~Loads(batch.assets[batch.next])
           /\ consoleErrors' = Append(consoleErrors, batch.assets[batch.next])
           /\ Settle(b, AfterReject(batch))
    /\ UNCHANGED <<assets, particleCount, edits, currentTime, duration, settings, animTime,
                   positions, colors, defaultParticles, frames, random, gen,
                   panelVars>>

Next ==
    \/ \E newAssets \in AssetLists : AssetsChanged(newAssets)
    \/ \E n \in ParticleCounts : ParticleCountChanged(n)
    \/ \E b \in 1..MaxEdits : LoadResolve(b)
    \/ \E b \in 1..MaxEdits : LoadReject(b)

Spec == Init /\ [][Next]_vars

\* the assets of list that decode, in list order
RECURSIVE Loadable(_)
Loadable(list) ==
    IF list = <<>> THEN <<>>
    ELSE IF ~Loads(Head(list)) THEN Loadable(Tail(list))
    ELSE <<Head(list)>> \o Loadable(Tail(list))

\* the assets of list that fail to decode, in list order
RECURSIVE Failing(_)
Failing(list) ==
    IF list = <<>> THEN <<>>
    ELSE IF ~Loads(Head(list)) THEN <<Head(list)>> \o Failing(Tail(list))
    ELSE Failing(Tail(list))

\* states holds one buffer per asset of list, sampled from that asset's image
\* with count particles
BuffersOf(states, list, count) ==
    /\ Len(states) = Len(list)
    /\ \A k \in DOMAIN states :
          /\ states[k].data = Decode(list[k])
          /\ Len(states[k].positions) = 3 * count
          /\ Len(states[k].colors) = 3 * count

\* C10: a load batch attempts every asset of its list once, in list order;
\* an asset that fails is logged and skipped, the batch goes on, and it ends
\* by publishing the buffers of exactly the assets that loaded, in asset order
C10_BatchLoadsEachAsset ==
    /\ \A b \in DOMAIN batches :
          LET batch == batches[b]
          IN  /\ batch.next \in 1..Len(batch.assets)
              /\ batch.attempted = SubSeq(batch.assets, 1, batch.next - 1)
              /\ batch.logged = Failing(batch.attempted)
              /\ BuffersOf(batch.states, Loadable(batch.attempted), batch.count)
    /\ published # NoBatch =>
          /\ published.attempted = published.assets
          /\ published.logged = Failing(published.assets)
          /\ BuffersOf(imageDataStates, Loadable(published.assets), published.count)
    /\ edits = Len(batches) + (IF published # NoBatch THEN 1 ELSE 0)
           => \A k \in DOMAIN consoleErrors : ~Loads(consoleErrors[k])

\* C11: once no loading batch is in flight, the published buffers are those
\* generated for the latest asset list and the latest particleCount, whatever
\* the order in which earlier batches completed
C11_LatestBatchWins ==
    batches = <<>> => BuffersOf(imageDataStates, Loadable(assets), particleCount)

\* arrayMove(list, from, to) of the drag-and-drop kit: the element at from is
\* taken out and put back at to
ArrayMove(list, from, to) ==
    LET without == [k \in 1..(Len(list) - 1) |-> IF k < from THEN list[k] ELSE list[k + 1]]
    IN  [k \in 1..Len(list) |->
            IF k < to THEN without[k] ELSE IF k = to THEN list[from] ELSE without[k - 1]]

\* new is what handleDragEnd hands to reorderAssets for the list prev
IsReorder(prev, new) ==
    \E from \in DOMAIN prev, to \in DOMAIN prev :
        from # to /\ new = ArrayMove(prev, from, to)

C20_NextIndexSameCount ==
    nextImageIndex = (currentImageIndex + 1) % Max(Len(assets), 1)

\* a batch whose first asset failed has published the buffer of its second
C10_Witness ==
    /\ published # NoBatch
    /\ Len(published.assets) = 2
    /\ ~Loads(published.assets[1])
    /\ Len(imageDataStates) = 1
    /\ imageDataStates[1].data = Decode(published.assets[2])
    /\ published.assets[1] \in {consoleErrors[k] : k \in DOMAIN consoleErrors}

\* C26: whenever imageDataStates is non-empty, the mapper's currentImageIndex
\* is smaller than the number of loaded buffers and the buffer at that index
\* was generated from the asset at the same index of the asset list, also
\* when assets failed to decode
C26_IndexAddressesItsAsset ==
    imageDataStates # <<>> =>
        /\ currentImageIndex < Len(imageDataStates)
        /\ currentImageIndex + 1 \in DOMAIN assets
        /\ Loads(assets[currentImageIndex + 1])
        /\ imageDataStates[currentImageIndex + 1].data = Decode(assets[currentImageIndex + 1])

----------------------------------------------------------------------------
(* ParticleCanvas with its images loaded, when particleCount changes: the     *)
(* effect reloads the images for the new count while ParticleSystem, mounted  *)
(* anew, draws frames.                                                         *)

\* what a completed batch over list has published for count particles
LoadedStates(list, count) ==
    [k \in 1..Len(Loadable(list)) |->
        ImageDataState(Decode(Loadable(list)[k]), count, ConstRnd(count, 500))]

\* the asset lists whose images are loaded when the count changes
ResizeLists == {<<"a">>, <<"a", "b">>, <<"x", "a">>, <<"t", "b">>}

InitResize ==
    /\ InitPanels
    /\ assets \in ResizeLists
    /\ particleCount \in ParticleCounts
    /\ imageDataStates = LoadedStates(assets, particleCount)
    /\ published = [assets |-> assets, count |-> particleCount, attempted |-> assets,
                    logged |-> Failing(assets), id |-> 0, prev |-> <<>>]
    /\ batches = <<>>
    /\ consoleErrors = Failing(assets)
    /\ edits = 0
    /\ currentTime = 0
    /\ duration = Duration
    /\ settings = IdentityGrading("morph", FALSE, FALSE)
    /\ animTime = 0
    /\ positions = InitialPositions(particleCount)
    /\ colors = InitialColors(particleCount)
    /\ defaultParticles = DefaultParticles(particleCount, ConstRnd(particleCount, 250))
    /\ frames = 0
    /\ random = NoRandom(particleCount)
    /\ gen = <<>>

NextResize ==
    \/ \E n \in ParticleCounts : ParticleCountChanged(n)
    \/ \E b \in 1..MaxEdits : LoadResolve(b)
    \/ \E b \in 1..MaxEdits : LoadReject(b)
    \/ Frame

SpecResize == InitResize /\ [][NextResize]_vars

\* C12: every frame reads source and target buffers of exactly 3 *
\* particleCount elements, so every index i * 3 + k with i < particleCount is
\* inside the buffer it addresses, also after particleCount has changed
C12_FrameReadsCurrentCount ==
    [][frames' # frames
          => /\ Len(sourcePositions) = 3 * particleCount
             /\ Len(targetPositions) = 3 * particleCount
             /\ Len(sourceColors) = 3 * particleCount
             /\ Len(targetColors) = 3 * particleCount]_vars

----------------------------------------------------------------------------
(* ProjectEditor: the playhead.  currentTime is advanced by the 16 ms playback *)
(* timer while isPlaying, and set by the timeline's scrubber, its skip buttons *)
(* and its asset navigation (onTimeChange).                                    *)

\* the values onTimeChange is called with: the scrubber, the two skip buttons,
\* and navigateAsset's newIndex * transitionDuration
SeekTimes(len, dur) ==
    {(k * dur) \div 8 : k \in 0..8}
        \cup {(k * dur) \div Max(1, len - 1) : k \in 0..Max(0, len - 1)}

InitTimeline ==
    /\ InitPanels
    /\ particleCount = NumParticles
    /\ imageDataStates = <<>>
    /\ batches = <<>>
    /\ consoleErrors = <<>>
    /\ edits = 0
    /\ currentTime = 0
    /\ duration = Duration
    /\ animTime = 0
    /\ positions = InitialPositions(NumParticles)
    /\ colors = InitialColors(NumParticles)
    /\ defaultParticles = DefaultParticles(NumParticles, ConstRnd(NumParticles, 250))
    /\ frames = 0
    /\ random = NoRandom(NumParticles)
    /\ gen = <<>>
    /\ published = NoBatch
    /\ assets \in {AssetList(n) : n \in 0..(MaxImages + 1)}
    /\ settings \in {[IdentityGrading("morph", TRUE, FALSE) EXCEPT !.loop = l] :
                        l \in BOOLEAN}

\* the setInterval callback that leaves the playhead where it is on the last
\* tick instead of wrapping or clamping
TickStalls ==
    /\ settings.isPlaying
    /\ LET next == currentTime + 16
       IN  currentTime' = IF next >= duration THEN currentTime ELSE next
    /\ UNCHANGED <<assets, particleCount, imageDataStates, batches, consoleErrors, edits,
                   duration, settings, animTime, positions, colors, defaultParticles,
                   frames, random, gen, published,
                   panelVars>>

\* the setInterval callback of the playback timer
Tick ==
    /\ settings.isPlaying
    /\ LET next == currentTime + 16
       IN  currentTime' = IF next >= duration
                          THEN (IF settings.loop THEN 0 ELSE duration)
                          ELSE next
    /\ UNCHANGED <<assets, particleCount, imageDataStates, batches, consoleErrors, edits,
                   duration, settings, animTime, positions, colors, defaultParticles,
                   frames, random, gen, published,
                   panelVars>>

\* onTimeChange(t)
SetCurrentTime(t) ==
    /\ currentTime' = t
    /\ UNCHANGED <<assets, particleCount, imageDataStates, batches, consoleErrors, edits,
                   duration, settings, animTime, positions, colors, defaultParticles,
                   frames, random, gen, published,
                   panelVars>>

\* onPlayPause
PlayPause ==
    /\ settings' = [settings EXCEPT !.isPlaying = ~@]
    /\ UNCHANGED <<assets, particleCount, imageDataStates, batches, consoleErrors, edits,
                   currentTime, duration, animTime, positions, colors, defaultParticles,
                   frames, random, gen, published,
                   panelVars>>

\* the values of the Total Duration slider
Durations == {Duration \div 2, Duration}

\* onSettingsChange({ duration: d }): the settings change, currentTime is left
\* as it is
SetDuration(d) ==
    /\ d # duration
    /\ duration' = d
    /\ UNCHANGED <<assets, particleCount, imageDataStates, batches, consoleErrors, edits,
                   currentTime, settings, animTime, positions, colors, defaultParticles,
                   frames, random, gen, published,
                   panelVars>>

\* onSettingsChange({ loop: checked })
ToggleLoop ==
    /\ settings' = [settings EXCEPT !.loop = ~@]
    /\ UNCHANGED <<assets, particleCount, imageDataStates, batches, consoleErrors, edits,
                   currentTime, duration, animTime, positions, colors, defaultParticles,
                   frames, random, gen, published,
                   panelVars>>

NextTimeline ==
    \/ Tick
    \/ \E t \in SeekTimes(Len(assets), duration) : SetCurrentTime(t)
    \/ PlayPause
    \/ \E d \in Durations : SetDuration(d)
    \/ ToggleLoop

SpecTimeline == InitTimeline /\ [][NextTimeline]_vars

\* C15: in every reachable state of the editor 0 <= currentTime <= duration,
\* after any sequence of ticks, seeks, skips, asset navigation, loop toggles
\* and duration changes
C15_TimeInRange == 0 <= currentTime /\ currentTime <= duration

\* currentTime lies in transition window k: k * transitionDuration <=
\* currentTime < (k + 1) * transitionDuration, with transitionDuration =
\* duration / (Len(assets) - 1)
InWindow(time, k) ==
    /\ k * duration <= time * (Len(assets) - 1)
    /\ time * (Len(assets) - 1) < (k + 1) * duration

\* C6: with two or more images, while currentTime increases inside one
\* transition window k the mapped progress does not decrease and the index
\* stays k; when currentTime moves from window k - 1 onto the interior
\* boundary k * transitionDuration the progress becomes 0 and the index
\* increases by exactly 1, and past the boundary the progress is counted
\* from the boundary
C6_TimelineMonotonic ==
    [][(/\ Len(assets) >= 2
        /\ duration > 0
        /\ 0 <= currentTime
        /\ currentTime < currentTime'
        /\ currentTime' <= duration)
       => \A k \in 0..(Len(assets) - 2) :
             /\ (InWindow(currentTime, k) /\ InWindow(currentTime', k))
                   => /\ currentImageIndex = k
                      /\ currentImageIndex' = k
                      /\ transitionProgress' >= transitionProgress
             /\ (k >= 1 /\ InWindow(currentTime, k - 1) /\ InWindow(currentTime', k))
                   => /\ currentImageIndex' = currentImageIndex + 1
                      /\ transitionProgress' * duration
                            <= (currentTime' * (Len(assets) - 1) - k * duration) * SCALE
                      /\ (currentTime' * (Len(assets) - 1) = k * duration
                             => transitionProgress' = 0)]_vars

\* the playhead stands on the interior boundary between the first and the
\* second transition of three images
C6_Witness ==
    /\ Len(assets) = 3
    /\ currentTime * 2 = duration
    /\ currentImageIndex = 1
    /\ transitionProgress = 0

----------------------------------------------------------------------------
(* ProjectEditor with its ParticleCanvas: the playback timer advances          *)
(* currentTime, the frame callback advances the animation time, and Play/Pause *)
(* switches isPlaying for both.  The playhead is followed for its first        *)
(* MaxTicks ticks.                                                             *)

MaxTicks == 3

InitPlayback == InitTimeline

NextPlayback ==
    \/ currentTime < MaxTicks * 16 /\ Tick
    \/ PlayPause
    \/ Frame

SpecPlayback == InitPlayback /\ [][NextPlayback]_vars

\* C23: the animation time increases by the frame delta on a frame only if
\* isPlaying is true and is unchanged by every frame rendered while isPlaying
\* is false; currentTime likewise does not change while isPlaying is false.
C23_TimeAdvancesOnlyWhilePlaying ==
    [][/\ frames' # frames =>
             IF settings.isPlaying THEN (animTime' - animTime) \in Deltas
             ELSE animTime' = animTime
       /\ frames' = frames => animTime' = animTime
       /\ ~settings.isPlaying => currentTime' = currentTime]_vars

\* the editor played for a tick, was paused, and a frame was rendered while
\* paused: the animation time is still 0
C23_Witness ==
    /\ frames = 1
    /\ ~settings.isPlaying
    /\ currentTime = 16
    /\ animTime = 0

----------------------------------------------------------------------------
(* useHistory: the undo/redo history of the settings.  A value of the history  *)
(* is a settings object; set, undo, redo, reset and clear are the callbacks    *)
(* the hook returns.  calls records the last two calls, each with the history  *)
(* it found.                                                                   *)

\* the maxHistory option
maxHistory == 3

HistoryValues ==
    {[defaultSettings EXCEPT !.transitionStyle = style] :
        style \in {"morph", "explode", "swirl"}}

\* JSON.stringify of a settings object: its keys and values in key order
Stringify(v) ==
    <<"transitionStyle", v.transitionStyle, "depthEnabled", v.depthEnabled, "loop", v.loop>>

\* list.slice(-k)
SliceLast(list, k) ==
    IF Len(list) <= k THEN list ELSE SubSeq(list, Len(list) - k + 1, Len(list))

\* calls with one more call
Called(op, arg) ==
    LET call == [op |-> op, arg |-> arg, before |-> history]
    IN  IF Len(calls) < 2 THEN Append(calls, call) ELSE <<calls[2], call>>

\* set(newPresent)
Set(v) ==
    /\ IF isUndoRedo
       THEN /\ isUndoRedo' = FALSE
            /\ history' = history
       ELSE /\ isUndoRedo' = isUndoRedo
            /\ history' =
                  IF Stringify(v) = Stringify(history.present) THEN history
                  ELSE [past |-> SliceLast(Append(history.past, history.present), maxHistory),
                        present |-> v,
                        future |-> <<>>]
    /\ calls' = Called("set", v)
    /\ UNCHANGED <<canvasVars, isExporting, abortRef, recorders, orderIndex, loaded>>

\* undo() that does not keep the present value for redo
UndoDropsPresent ==
    /\ IF Len(history.past) = 0
       THEN UNCHANGED <<history, isUndoRedo>>
       ELSE /\ history' = [past |-> SubSeq(history.past, 1, Len(history.past) - 1),
                           present |-> history.past[Len(history.past)],
                           future |-> history.future]
            /\ isUndoRedo' = TRUE
    /\ calls' = Called("undo", <<>>)
    /\ UNCHANGED <<canvasVars, isExporting, abortRef, recorders, orderIndex, loaded>>

\* undo()
Undo ==
    /\ IF Len(history.past) = 0
       THEN UNCHANGED <<history, isUndoRedo>>
       ELSE /\ history' = [past |-> SubSeq(history.past, 1, Len(history.past) - 1),
                           present |-> history.past[Len(history.past)],
                           future |-> <<history.present>> \o history.future]
            /\ isUndoRedo' = TRUE
    /\ calls' = Called("undo", <<>>)
    /\ UNCHANGED <<canvasVars, isExporting, abortRef, recorders, orderIndex, loaded>>

\* redo()
Redo ==
    /\ IF Len(history.future) = 0
       THEN UNCHANGED <<history, isUndoRedo>>
       ELSE /\ history' = [past |-> Append(history.past, history.present),
                           present |-> history.future[1],
                           future |-> Tail(history.future)]
            /\ isUndoRedo' = TRUE
    /\ calls' = Called("redo", <<>>)
    /\ UNCHANGED <<canvasVars, isExporting, abortRef, recorders, orderIndex, loaded>>

\* reset(newPresent)
Reset(v) ==
    /\ history' = [past |-> <<>>, present |-> v, future |-> <<>>]
    /\ calls' = Called("reset", v)
    /\ UNCHANGED <<canvasVars, isUndoRedo, isExporting, abortRef, recorders, orderIndex, loaded>>

\* clear()
Clear ==
    /\ history' = [past |-> <<>>, present |-> history.present, future |-> <<>>]
    /\ calls' = Called("clear", <<>>)
    /\ UNCHANGED <<canvasVars, isUndoRedo, isExporting, abortRef, recorders, orderIndex, loaded>>

\* the editor as it mounts, with no asset
InitHistory == InitTimeline /\ assets = <<>> /\ settings.loop

NextHistory ==
    \/ \E v \in HistoryValues : Set(v)
    \/ Undo
    \/ Redo
    \/ \E v \in HistoryValues : Reset(v)
    \/ Clear

SpecHistory == InitHistory /\ [][NextHistory]_vars

\* the last call and the history it found
LastCall == calls[Len(calls)]

\* C24: after any sequence of set, undo, redo, reset and clear calls, a call
\* set(v) with v different from the present value makes the present value v,
\* appends the old present value to past and empties future.
C24_SetRecordsPresent ==
    (calls # <<>> /\ LastCall.op = "set" /\ LastCall.arg # LastCall.before.present) =>
        /\ history.present = LastCall.arg
        /\ history.past = Append(LastCall.before.past, LastCall.before.present)
        /\ history.future = <<>>

\* C29: whenever past is non-empty, undo followed immediately by redo leaves
\* (past, present, future) as before the undo; whenever future is non-empty,
\* redo followed immediately by undo leaves them as before the redo; undo with
\* empty past and redo with empty future change nothing.
C29_UndoRedoRoundTrip ==
    /\ (/\ Len(calls) = 2
        /\ calls[1].op = "undo" /\ calls[2].op = "redo"
        /\ calls[1].before.past # <<>>) => history = calls[1].before
    /\ (/\ Len(calls) = 2
        /\ calls[1].op = "redo" /\ calls[2].op = "undo"
        /\ calls[1].before.future # <<>>) => history = calls[1].before
    /\ (calls # <<>> /\ LastCall.op = "undo" /\ LastCall.before.past = <<>>)
           => history = LastCall.before
    /\ (calls # <<>> /\ LastCall.op = "redo" /\ LastCall.before.future = <<>>)
           => history = LastCall.before

\* an undo and then a redo in the middle of a history: both past and future
\* were non-empty before the undo
C29_Witness ==
    /\ Len(calls) = 2
    /\ calls[1].op = "undo" /\ calls[2].op = "redo"
    /\ Len(calls[1].before.past) = 2
    /\ calls[1].before.future # <<>>
    /\ history = calls[1].before

----------------------------------------------------------------------------
(* VideoExport: the export dialog.  A recorder is a MediaRecorder that          *)
(* handleExport created, with its progress interval: state is "recording",     *)
(* "stopping" once stop() was called and the stop event is pending, "inactive" *)
(* after onstop ran; elapsed counts the interval callbacks that found the      *)
(* recording going on.  cancelled records that Cancel Export was pressed while *)
(* the recorder was the one the dialog showed, downloaded that onstop          *)
(* clicked the download link.                                                  *)

MaxRecordings == 2

\* the interval callbacks after which elapsed >= recordDuration
RecordTicks == 2

\* Start Recording: handleExport, the canvas and the MIME type being available
StartRecording ==
    /\ ~isExporting
    /\ Len(recorders) < MaxRecordings
    /\ isExporting' = TRUE
    /\ abortRef' = FALSE
    /\ recorders' = Append(recorders, [interval |-> TRUE, state |-> "recording", elapsed |-> 0,
                                       cancelled |-> FALSE, downloaded |-> FALSE])
    /\ UNCHANGED <<canvasVars, history, isUndoRedo, calls, orderIndex, loaded>>

\* Cancel Export: handleCancel; the dialog shows the recorder created last
Cancel ==
    /\ isExporting
    /\ abortRef' = TRUE
    /\ isExporting' = FALSE
    /\ recorders' = [recorders EXCEPT ![Len(recorders)].cancelled = TRUE]
    /\ UNCHANGED <<canvasVars, history, isUndoRedo, calls, orderIndex, loaded>>

\* the callback of recorder r's progressInterval
ProgressTick(r) ==
    /\ recorders[r].interval
    /\ IF abortRef
       THEN recorders' = [recorders EXCEPT ![r].interval = FALSE, ![r].state = "stopping"]
       ELSE IF recorders[r].elapsed + 1 >= RecordTicks
            THEN recorders' = [recorders EXCEPT ![r].elapsed = @ + 1,
                                                ![r].interval = FALSE,
                                                ![r].state = "stopping"]
            ELSE recorders' = [recorders EXCEPT ![r].elapsed = @ + 1]
    /\ UNCHANGED <<canvasVars, history, isUndoRedo, calls, isExporting, abortRef,
                   orderIndex, loaded>>

\* mediaRecorder.onstop of recorder r
OnStop(r) ==
    /\ recorders[r].state = "stopping"
    /\ IF abortRef
       THEN recorders' = [recorders EXCEPT ![r].state = "inactive"]
       ELSE recorders' = [recorders EXCEPT ![r].state = "inactive", ![r].downloaded = TRUE]
    /\ isExporting' = FALSE
    /\ UNCHANGED <<canvasVars, history, isUndoRedo, calls, abortRef, orderIndex, loaded>>

InitExport == InitHistory

NextExport ==
    \/ StartRecording
    \/ Cancel
    \/ \E r \in 1..MaxRecordings : r \in DOMAIN recorders /\ ProgressTick(r)
    \/ \E r \in 1..MaxRecordings : r \in DOMAIN recorders /\ OnStop(r)

SpecExport == InitExport /\ [][NextExport]_vars

\* C25: once Cancel Export has been pressed for a recording, that recording
\* never triggers a file download, under every interleaving of cancel, a
\* subsequent Start Recording, the progress-interval callbacks and the
\* recorder's stop callback.
C25_CancelledNeverDownloads ==
    \A r \in DOMAIN recorders : recorders[r].cancelled => ~recorders[r].downloaded

----------------------------------------------------------------------------
(* useProjectAssets: the hook's local assets list and the order_index column  *)
(* of the project's rows in the assets table.  assets holds the ids of the     *)
(* local list in its order; orderIndex maps the id of every stored row to its  *)
(* order_index.  Every operation succeeds and runs to its end before the next  *)
(* starts; edits counts the operations.                                        *)

MaxOps == 4

\* what the canvas and the timeline hold, which the hook does not touch
besideAssets == <<particleCount, imageDataStates, batches, consoleErrors, currentTime,
                  duration, settings, animTime, positions, colors, defaultParticles,
                  frames, random, gen, published>>

\* the ids of the local list
Listed == {assets[k] : k \in DOMAIN assets}

\* the files of one drop: one or two new images
FileLists ==
    {<<id>> : id \in AssetIds} \cup
    {<<pair[1], pair[2]>> : pair \in {p \in AssetIds \X AssetIds : p[1] # p[2]}}

\* uploadAsset(file, userId): the row is inserted with order_index
\* assets.length, then appended to the local list
UploadAsset(id) ==
    /\ edits < MaxOps
    /\ id \notin Listed
    /\ edits' = edits + 1
    /\ orderIndex' = [row \in DOMAIN orderIndex \cup {id} |->
                         IF row = id THEN Len(assets) ELSE orderIndex[row]]
    /\ assets' = Append(assets, id)
    /\ UNCHANGED <<besideAssets, history, isUndoRedo, calls, isExporting, abortRef,
                   recorders, loaded>>

\* uploadMultipleAssets(files, userId): uploadAsset for every file in turn;
\* every call is the uploadAsset of the render that created
\* uploadMultipleAssets, so assets.length is the length at that render
UploadMultipleAssets(files) ==
    /\ edits < MaxOps
    /\ \A k \in DOMAIN files : files[k] \notin Listed
    /\ edits' = edits + 1
    /\ orderIndex' = [row \in DOMAIN orderIndex \cup {files[k] : k \in DOMAIN files} |->
                         IF row \in DOMAIN orderIndex THEN orderIndex[row] ELSE Len(assets)]
    /\ assets' = assets \o files
    /\ UNCHANGED <<besideAssets, history, isUndoRedo, calls, isExporting, abortRef,
                   recorders, loaded>>

\* deleteAsset(assetId): the row is deleted and the asset filtered out of the
\* local list; no other row is updated
DeleteAsset(id) ==
    /\ edits < MaxOps
    /\ id \in Listed
    /\ edits' = edits + 1
    /\ orderIndex' = [row \in DOMAIN orderIndex \ {id} |-> orderIndex[row]]
    /\ assets' = SelectSeq(assets, LAMBDA a : a # id)
    /\ UNCHANGED <<besideAssets, history, isUndoRedo, calls, isExporting, abortRef,
                   recorders, loaded>>

\* reorderAssets(newOrder): the local list becomes newOrder and every row of
\* newOrder gets its index
ReorderAssets(newOrder) ==
    /\ edits < MaxOps
    /\ IsReorder(assets, newOrder)
    /\ edits' = edits + 1
    /\ assets' = newOrder
    /\ orderIndex' = [row \in DOMAIN orderIndex |->
                         IF \E k \in DOMAIN newOrder : newOrder[k] = row
                         THEN (CHOOSE k \in DOMAIN newOrder : newOrder[k] = row) - 1
                         ELSE orderIndex[row]]
    /\ UNCHANGED <<besideAssets, history, isUndoRedo, calls, isExporting, abortRef,
                   recorders, loaded>>

InitAssets == InitHistory

NextAssets ==
    \/ \E id \in AssetIds : UploadAsset(id)
    \/ \E files \in FileLists : UploadMultipleAssets(files)
    \/ \E id \in AssetIds : DeleteAsset(id)
    \/ \E from \in 1..Cardinality(AssetIds), to \in 1..Cardinality(AssetIds) :
          /\ from \in DOMAIN assets
          /\ to \in DOMAIN assets
          /\ from # to
          /\ ReorderAssets(ArrayMove(assets, from, to))

SpecAssets == InitAssets /\ [][NextAssets]_vars

\* C27: after any sequence of successful single uploads, batch uploads,
\* deletions and reorders on one project, the stored order_index values are
\* pairwise distinct and sorting by order_index gives the order of the local
\* assets list
C27_OrderIndexMatchesList ==
    /\ DOMAIN orderIndex = Listed
    /\ \A r1 \in DOMAIN orderIndex, r2 \in DOMAIN orderIndex :
          r1 # r2 => orderIndex[r1] # orderIndex[r2]
    /\ \A j \in DOMAIN assets, k \in DOMAIN assets :
          j < k => orderIndex[assets[j]] < orderIndex[assets[k]]

----------------------------------------------------------------------------
(* loadImageData: the promise of one image.  loaded holds the outcome of the   *)
(* last call: the image's size, the canvas size computed in img.onload, and    *)
(* whether the promise was resolved, rejected, or left pending for ever        *)
(* because img.onload threw before it called resolve.                          *)

maxSize == 256

\* the widths and heights of the source images
ImageSizes == {1, 2, 3, 49, 100, 256, 257, 640, 768, 1000, 12544}

\* maxSize / n as a double: maxSize is 2^8, so it is 1 / n with the exponent
\* raised by 8
maxSizeOver(n) == DoubleShift(DoubleDiv(1, n), BitLen(maxSize) - 1)

\* const scale = Math.min(maxSize / img.width, maxSize / img.height)
scaleOf(width, height) == DoubleMin(maxSizeOver(width), maxSizeOver(height))

\* canvas.width and canvas.height
canvasSize(width, height) ==
    [width  |-> FloorOfProduct(scaleOf(width, height), width),
     height |-> FloorOfProduct(scaleOf(width, height), height)]

\* img.onload for an image of the given size, the 2d context being there:
\* ctx.getImageData throws IndexSizeError when the width or the height of the
\* rectangle is 0, and then neither resolve nor reject is ever called
ImageLoaded(width, height) ==
    /\ LET canvas == canvasSize(width, height)
       IN  loaded' = <<[width |-> width, height |-> height, canvas |-> canvas,
                        promise |-> IF canvas.width = 0 \/ canvas.height = 0
                                    THEN "pending" ELSE "resolved"]>>
    /\ UNCHANGED <<canvasVars, history, isUndoRedo, calls, isExporting, abortRef,
                   recorders, orderIndex>>

\* img.onerror = reject
ImageError ==
    /\ loaded' = <<[width |-> 0, height |-> 0, canvas |-> [width |-> 0, height |-> 0],
                    promise |-> "rejected"]>>
    /\ UNCHANGED <<canvasVars, history, isUndoRedo, calls, isExporting, abortRef,
                   recorders, orderIndex>>

InitLoad == InitHistory

NextLoad ==
    \/ \E width \in ImageSizes, height \in ImageSizes : ImageLoaded(width, height)
    \/ ImageError

SpecLoad == InitLoad /\ [][NextLoad]_vars

\* C28: for every source image of width >= 1 and height >= 1 the canvas width
\* floor(width * scale) and height floor(height * scale), with scale =
\* min(256 / width, 256 / height), are both at least 1 and at most 256, and
\* the returned promise settles
C28_CanvasNonEmptyAndSettles ==
    \A k \in DOMAIN loaded :
        loaded[k].width >= 1 =>
            /\ loaded[k].canvas.width \in 1..maxSize
            /\ loaded[k].canvas.height \in 1..maxSize
            /\ loaded[k].promise # "pending"

----------------------------------------------------------------------------
(* ProjectEditor under continuous playback: isPlaying stays true, the          *)
(* duration and the loop switch stay as they are, nobody seeks; the only step  *)
(* is the timer's callback, which setInterval runs every 16 ms for as long as  *)
(* isPlaying is true.                                                          *)

InitPlaythrough == InitTimeline /\ settings.isPlaying /\ duration > 0

NextPlaythrough == Tick

SpecPlaythrough == InitPlaythrough /\ [][NextPlaythrough]_vars /\ WF_vars(Tick)

\* C30: under continuous playback the playhead reaches the end of the timeline
\* after finitely many ticks; on the tick where currentTime + 0.016 >=
\* duration, currentTime becomes 0 if loop is on and duration if it is off;
\* with loop off it then stays equal to duration on every later tick
C30_PlayheadReachesEnd ==
    /\ <>(currentTime + 16 >= duration)
    /\ (currentTime + 16 >= duration)
          ~> (currentTime = IF settings.loop THEN 0 ELSE duration)
    /\ [][currentTime + 16 >= duration
             => currentTime' = IF settings.loop THEN 0 ELSE duration]_vars
    /\ [](~settings.loop => <>[](currentTime = duration))

\* loop is off and the playhead, after the ticks from 0, stands at duration
C30_Witness ==
    /\ settings.isPlaying
    /\ ~settings.loop
    /\ duration > 0
    /\ currentTime = duration

========================================================================
